---- MODULE Spec2Model ----
(***************************************************************************)
(* Model of the `integrators` crate: the marshaling traits (traits.rs),    *)
(* the panic-catching LandingPad (ffi.rs), the foreign-callable entry      *)
(* points cuba_integrand / gsl_integrand_fn and the integrate methods of   *)
(* the Cuba adapters (Cuhre, Vegas, Suave) and the GSL adapters (QNG, QAG, *)
(* QAGS, QAGP, QAWC, QAGI, QAGIU, QAGIL).                                  *)
(*                                                                         *)
(* The foreign libraries are the environment: they call the registered     *)
(* entry point some number of times and then return a status code.        *)
(* The integrand is environment too: on each invocation it either panics  *)
(* or returns a value of its output type.                                  *)
(*                                                                         *)
(* Six specifications:                                                     *)
(*   SpecLP  a Rust caller drives one ffi::LandingPad directly             *)
(*   Spec    a caller runs integrate on one adapter                        *)
(*   SpecTraits  a caller uses the marshaling traits directly              *)
(*   SpecWs  a caller builds, resizes, clones, runs and drops GSL adapters *)
(*   SpecPts a caller gives point lists to QAGP                            *)
(*   SpecCfg a caller configures a Cuba adapter with its builder methods   *)
(***************************************************************************)
EXTENDS Integers, Sequences, FiniteSets, TLC

VARIABLES
    ty,        \* [A, B]: the integrand's input and output types
    lp,        \* the LandingPad (or, for Suave, the memory the callback takes for one)
    last,      \* SpecLP: the last LandingPad operation and what it returned
    ghost,     \* history: first captured failure, invocations made through try_call
    ad,        \* Spec: the adapter whose integrate runs
    pc,        \* Spec: "idle" | "foreign" | "done"
    call,      \* Spec: what integrate handed to the foreign routine
    cb,        \* Spec: the last call of the foreign-callable entry point
    outcome,   \* Spec: what integrate produced for its caller
    conf,      \* Spec: the adapter's configuration (builder fields)
    tr,        \* SpecTraits: the last marshaling call and what it produced
    heap,      \* SpecWs: the foreign workspaces GSL has handed out
    objs,      \* SpecWs: the adapter values the caller owns
    log        \* SpecWs: the last operation and the foreign calls it made

vars == <<ty, lp, last, ghost, ad, pc, call, cb, outcome, conf, tr, heap, objs, log>>

----------------------------------------------------------------------------
(* Bounds of the model *)

\* longest argument / output buffer a direct caller of LandingPad passes
MaxLen == 8
\* most invocations of the integrand in one behaviour
MaxInv == 3
\* longest vector a Vec<Real> integrand returns
MaxVecLen == 2
\* most callbacks the foreign routine makes in one integrate call
MaxCalls == 2
\* the foreign routine's results are built from a number in 0..MaxFill
MaxFill == 1
\* values handed to the marshaling traits differ by an offset in 0..MaxOff
MaxOff == 1
\* most workspaces GSL hands out in one behaviour
MaxWs == 2
\* most adapter values the caller owns at once
MaxObjs == 2
\* largest nintervals a caller asks for
MaxIntervals == 1
\* longest list of singular points given to QAGP
MaxPts == 2
\* SpecCfg: the builder setters are given the values 0 .. MaxSet
MaxSet == 1

----------------------------------------------------------------------------
(* Panic payloads.  Every payload is a record of the same shape so that    *)
(* payloads can be compared.                                               *)

Payload(k, x, y) == [kind |-> k, a |-> x, b |-> y]
NoErr == Payload("none", 0, 0)
\* the integrand's own panic on its i-th invocation
IntegrandPanic(i) == Payload("integrand", i, 0)
\* what Suave's callback reads where LandingPad::err would be
Garbage == Payload("garbage", 0, 0)

----------------------------------------------------------------------------
(* traits.rs: the marshaling layer.  A tuple type Real .. Real8 is named  *)
(* by its number of components n; Vec<Real> is the one dynamic type.       *)

TupleT(n) == [k |-> "tuple", n |-> n]
VecT == [k |-> "vec", n |-> 0]
InputTypes == {TupleT(n) : n \in 1..8}
OutputTypes == InputTypes \cup {VecT}

\* the $size argument of each impl_integrand_traits! instance
MacroSize(n) == IF n = 8 THEN 7 ELSE n

input_size(A) == MacroSize(A.n)

\* a value is the sequence of its components
output_size(B, v) == IF B.k = "vec" THEN Len(v) ELSE MacroSize(B.n)

Returned(v) == [panic |-> NoErr, val |-> v]
Panicked(p) == [panic |-> p, val |-> <<>>]

\* from_args without the assert on the length
from_args_Unchecked(A, args) ==
    IF A.n > Len(args)
    THEN Panicked(Payload("index_out_of_bounds", Len(args), Len(args)))
    ELSE Returned(SubSeq(args, 1, A.n))

\* from_args: assert on the length, then the $convert closure indexes
\* args[0] .. args[n-1].  The payload of assert! is its fixed message; an
\* index panic names the length and the index.
from_args(A, args) ==
    IF Len(args) # input_size(A)
    THEN Panicked(Payload("assert_from_args", 0, 0))
    ELSE IF A.n > Len(args)
    THEN Panicked(Payload("index_out_of_bounds", Len(args), Len(args)))
    ELSE Returned(SubSeq(args, 1, A.n))

\* the buffer after writing v[0..m-1] into it
WritePrefix(out, v, m) ==
    [j \in 1..Len(out) |-> IF j <= m THEN v[j] ELSE out[j]]

\* into_args: returns the panic (if any) and the buffer as it is left
into_args(B, v, out) ==
    IF B.k = "vec"
    THEN IF Len(v) # Len(out)
         THEN [panic |-> Payload("vec_wrong_length", Len(out), Len(v)), out |-> out]
         ELSE [panic |-> NoErr, out |-> WritePrefix(out, v, Len(v))]
    ELSE IF Len(out) # output_size(B, v)
         THEN [panic |-> Payload("assert_into_args", 0, 0),
               out |-> out]
         ELSE IF B.n > Len(out)
              THEN [panic |-> Payload("index_out_of_bounds", Len(out), Len(out)),
                    out |-> WritePrefix(out, v, Len(out))]
              ELSE [panic |-> NoErr, out |-> WritePrefix(out, v, B.n)]

----------------------------------------------------------------------------
(* The integrand F: FnMut(A) -> B.  Its behaviour on one invocation is    *)
(* chosen by the environment: beh.panics, and beh.vlen for a Vec.          *)

Behaviours(B) ==
    [panics : BOOLEAN, vlen : IF B.k = "vec" THEN 0..MaxVecLen ELSE {0}]

\* the i-th invocation: panics, or returns a value whose components are i
Invoke(B, i, beh) ==
    IF beh.panics
    THEN Panicked(IntegrandPanic(i))
    ELSE Returned([j \in 1..(IF B.k = "vec" THEN beh.vlen ELSE B.n) |-> i])

----------------------------------------------------------------------------
(* ffi.rs: LandingPad.  lp.err is the Option<Box<Any>> (NoErr for None),  *)
(* lp.calls counts the invocations of lp.fun, lp.alive is FALSE once the  *)
(* LandingPad has been consumed.                                           *)

\* LandingPad::new(fun); `calls` is the state the closure fun carries
LandingPad_new(calls) == [err |-> NoErr, calls |-> calls, alive |-> TRUE]

\* (lp.fun)(A::from_args(args)): the call of raw_call and of the closure
\* inside catch_unwind
CallFun(T, l, args, beh) ==
    LET a == from_args(T.A, args) IN
    IF a.panic # NoErr
    THEN [panic |-> a.panic, val |-> <<>>, calls |-> l.calls]
    ELSE LET r == Invoke(T.B, l.calls + 1, beh) IN
         [panic |-> r.panic, val |-> r.val, calls |-> l.calls + 1]

\* the closure given to catch_unwind: (lp.fun)(A::from_args(args)).into_args(output)
\* A panic of any of the three parts is the Err of catch_unwind.
CatchUnwindBody(T, l, args, out, beh) ==
    LET c == CallFun(T, l, args, beh) IN
    IF c.panic # NoErr
    THEN [panic |-> c.panic, out |-> out, calls |-> c.calls]
    ELSE LET w == into_args(T.B, c.val, out) IN
         [panic |-> w.panic, out |-> w.out, calls |-> c.calls]

\* try_call with the `if self.err.is_some()` test left out
try_call_NoLatch(T, l, args, out, beh) ==
    LET r == CatchUnwindBody(T, l, args, out, beh) IN
    IF r.panic = NoErr
    THEN [lp |-> [l EXCEPT !.calls = r.calls], out |-> r.out,
          res |-> "Ok", ref |-> NoErr, unwind |-> NoErr, caught |-> NoErr]
    ELSE [lp |-> [l EXCEPT !.calls = r.calls, !.err = r.panic], out |-> r.out,
          res |-> "Err", ref |-> r.panic, unwind |-> NoErr, caught |-> r.panic]

\* try_call with A::from_args(args) evaluated outside catch_unwind
try_call_ConvertOutside(T, l, args, out, beh) ==
    IF l.err # NoErr
    THEN [lp |-> l, out |-> out, res |-> "Err", ref |-> l.err, unwind |-> NoErr,
          caught |-> NoErr]
    ELSE IF from_args(T.A, args).panic # NoErr
    THEN [lp |-> l, out |-> out, res |-> "unwind", ref |-> NoErr,
          unwind |-> from_args(T.A, args).panic, caught |-> NoErr]
    ELSE try_call_NoLatch(T, l, args, out, beh)

\* LandingPad::try_call
try_call(T, l, args, out, beh) ==
    IF l.err # NoErr
    THEN [lp |-> l, out |-> out, res |-> "Err", ref |-> l.err, unwind |-> NoErr,
          caught |-> NoErr]
    ELSE LET r == CatchUnwindBody(T, l, args, out, beh) IN
         IF r.panic = NoErr
         THEN [lp |-> [l EXCEPT !.calls = r.calls], out |-> r.out,
               res |-> "Ok", ref |-> NoErr, unwind |-> NoErr, caught |-> NoErr]
         ELSE [lp |-> [l EXCEPT !.calls = r.calls, !.err = r.panic], out |-> r.out,
               res |-> "Err", ref |-> r.panic, unwind |-> NoErr, caught |-> r.panic]

\* raw_call that empties the failure record
raw_call_Reset(T, l, args, beh) ==
    LET c == CallFun(T, l, args, beh) IN
    [lp |-> [l EXCEPT !.calls = c.calls, !.err = NoErr], val |-> c.val,
     unwind |-> c.panic]

\* raw_call that intercepts a panic and stores it as try_call does
raw_call_Catching(T, l, args, beh) ==
    LET c == CallFun(T, l, args, beh) IN
    [lp |-> [l EXCEPT !.calls = c.calls, !.err = c.panic], val |-> c.val,
     unwind |-> NoErr]

\* LandingPad::raw_call: no interception, a panic unwinds to the caller
raw_call(T, l, args, beh) ==
    LET c == CallFun(T, l, args, beh) IN
    [lp |-> [l EXCEPT !.calls = c.calls], val |-> c.val, unwind |-> c.panic]

\* maybe_resume_unwind that drops the LandingPad without re-raising
maybe_resume_unwind_Swallow(l) ==
    [lp |-> [l EXCEPT !.alive = FALSE, !.err = NoErr], unwind |-> NoErr]

\* LandingPad::maybe_resume_unwind (with resume_unwind): consumes self and
\* re-raises the stored payload, if any
maybe_resume_unwind(l) ==
    [lp |-> [l EXCEPT !.alive = FALSE, !.err = NoErr], unwind |-> l.err]

\* finish that re-raises like maybe_resume_unwind
finish_Resume(l) ==
    [lp |-> [l EXCEPT !.alive = FALSE, !.err = NoErr],
     res |-> "None", ref |-> NoErr, unwind |-> l.err]

\* LandingPad::finish: consumes self and returns self.err
finish(l) ==
    [lp |-> [l EXCEPT !.alive = FALSE, !.err = NoErr],
     res |-> IF l.err = NoErr THEN "None" ELSE "Some",
     ref |-> l.err, unwind |-> NoErr]

----------------------------------------------------------------------------
(* SpecLP: a Rust caller owns one LandingPad and calls its methods.       *)

\* what the adapter side of the state holds while no integrate runs
NoCall == [userdata |-> "none", entry |-> "none", ndim |-> 0, ncomp |-> 0,
           invoked |-> FALSE, returned |-> FALSE, cores |-> "default",
           status |-> 0, value |-> <<>>, error |-> <<>>, prob |-> <<>>,
           nregions |-> 0, neval |-> 0, probed |-> <<>>, ffi |-> <<>>]
NoCb == [n |-> 0, tryres |-> "none", ret |-> 0, kind |-> "none", how |-> "none",
         out |-> <<>>, vlen |-> -1]
None == [some |-> FALSE, n |-> 0]
Some(n) == [some |-> TRUE, n |-> n]
NoRes == [nregions |-> None, neval |-> 0, results |-> <<>>]
NoError == [v |-> "none", name |-> "", n |-> 0, res |-> NoRes]
NoOutcome == [kind |-> "none", payload |-> NoErr, err |-> NoError, res |-> NoRes]
NoConf == [key |-> None]
NoTr == [op |-> "none", args |-> <<>>, val |-> <<>>, out |-> <<>>, back |-> <<>>,
         panic |-> NoErr, isize |-> 0, osize |-> 0]
NoHeap == [w \in 1..MaxWs |-> [st |-> "unused", n |-> 0, frees |-> 0]]
NoWkspc == [nintervals |-> 0, wkspc |-> 0]
NoObj == [kind |-> "none", wkspc |-> NoWkspc, pts |-> <<>>]
NoObjs == [o \in 1..MaxObjs |-> NoObj]
NoLog == [op |-> "none", events |-> <<>>, res |-> "none", pts |-> <<>>]

Zeros(n) == [j \in 1..n |-> 0]
\* an argument buffer of length n (every coordinate the same point)
Point(n) == [j \in 1..n |-> 5]

\* the buffer lengths a direct caller tries for a type of n components
\* (the type's components, the size it declares, one less and one more)
Lens(n) == {m \in 0..MaxLen :
              \/ (m >= n - 1 /\ m <= n + 1)
              \/ (m >= MacroSize(n) - 1 /\ m <= MacroSize(n) + 1)}
OutLens(B) == IF B.k = "vec" THEN 0..(MaxVecLen + 1) ELSE Lens(B.n)

Op(op, res, ref, unwind, caught, before, out, outBefore) ==
    [op |-> op, res |-> res, ref |-> ref, unwind |-> unwind, caught |-> caught,
     before |-> before, out |-> out, outBefore |-> outBefore]

NoGhost == [firstErr |-> NoErr, tryInv |-> 0, invAtFail |-> 0]

\* the history after a try_call that went from LandingPad l to r.lp
GhostAfter(g, l, r) ==
    LET inv == g.tryInv + (r.lp.calls - l.calls) IN
    IF g.firstErr = NoErr /\ r.caught # NoErr
    THEN [firstErr |-> r.caught, tryInv |-> inv, invAtFail |-> inv]
    ELSE [g EXCEPT !.tryInv = inv]

InitLP ==
    /\ ty \in [A : InputTypes, B : OutputTypes]
    /\ lp = LandingPad_new(0)
    /\ last = Op("new", "none", NoErr, NoErr, NoErr, LandingPad_new(0), <<>>, <<>>)
    /\ ghost = NoGhost
    /\ ad = "none"
    /\ pc = "idle"
    /\ call = NoCall
    /\ cb = NoCb
    /\ outcome = NoOutcome
    /\ conf = NoConf
    /\ tr = NoTr /\ heap = NoHeap /\ objs = NoObjs /\ log = NoLog

LP_try_call ==
    /\ lp.alive
    /\ lp.calls < MaxInv
    /\ \E n \in Lens(ty.A.n), m \in OutLens(ty.B), beh \in Behaviours(ty.B) :
          LET r == try_call(ty, lp, Point(n), Zeros(m), beh) IN
          /\ lp' = r.lp
          /\ last' = Op("try_call", r.res, r.ref, r.unwind, r.caught, lp,
                        r.out, Zeros(m))
          /\ ghost' = GhostAfter(ghost, lp, r)
    /\ UNCHANGED <<ty, ad, pc, call, cb, outcome, conf, tr, heap, objs, log>>

LP_raw_call ==
    /\ lp.alive
    /\ lp.calls < MaxInv
    /\ \E n \in Lens(ty.A.n), beh \in Behaviours(ty.B) :
          LET r == raw_call(ty, lp, Point(n), beh) IN
          /\ lp' = r.lp
          /\ last' = Op("raw_call", IF r.unwind = NoErr THEN "value" ELSE "unwind",
                        NoErr, r.unwind, NoErr, lp, r.val, <<>>)
    /\ UNCHANGED <<ty, ghost, ad, pc, call, cb, outcome, conf, tr, heap, objs, log>>

LP_maybe_resume_unwind ==
    /\ lp.alive
    /\ LET r == maybe_resume_unwind(lp) IN
          /\ lp' = r.lp
          /\ last' = Op("maybe_resume_unwind",
                        IF r.unwind = NoErr THEN "unit" ELSE "unwind",
                        NoErr, r.unwind, NoErr, lp, <<>>, <<>>)
    /\ UNCHANGED <<ty, ghost, ad, pc, call, cb, outcome, conf, tr, heap, objs, log>>

LP_finish ==
    /\ lp.alive
    /\ LET r == finish(lp) IN
          /\ lp' = r.lp
          /\ last' = Op("finish", IF r.unwind = NoErr THEN r.res ELSE "unwind",
                        r.ref, r.unwind, NoErr, lp, <<>>, <<>>)
    /\ UNCHANGED <<ty, ghost, ad, pc, call, cb, outcome, conf, tr, heap, objs, log>>

NextLP ==
    \/ LP_try_call
    \/ LP_raw_call
    \/ LP_maybe_resume_unwind
    \/ LP_finish

SpecLP == InitLP /\ [][NextLP]_vars

----------------------------------------------------------------------------
(* The foreign-callable entry points.                                      *)

CubaAdapters == {"Cuhre", "Vegas", "Suave"}
GslAdapters == {"QNG", "QAG", "QAGS", "QAGP", "QAWC", "QAGI", "QAGIU", "QAGIL"}
Adapters == CubaAdapters \cup GslAdapters

\* the value cuba_integrand returns to make Cuba abort
CUBA_ABORT == -999

Entry(r, ret, kind) ==
    [lp |-> r.lp, caught |-> r.caught, tryres |-> r.res, out |-> r.out,
     ret |-> ret, kind |-> kind,
     how |-> IF r.unwind = NoErr THEN "returned" ELSE "unwound"]

\* cuba_integrand that returns 0 whatever try_call returned
cuba_integrand_AlwaysZero(T, l, ndim, ncomp, beh) ==
    Entry(try_call(T, l, Point(ndim), Zeros(ncomp), beh), 0, "status")

\* cuba_integrand: x has *ndim elements, f has *ncomp elements
cuba_integrand(T, l, ndim, ncomp, beh) ==
    LET r == try_call(T, l, Point(ndim), Zeros(ncomp), beh) IN
    Entry(r, IF r.res = "Ok" THEN 0 ELSE CUBA_ABORT, "status")

\* gsl_integrand_fn: returns a Real, output[0] or 0.0
gsl_integrand_fn(T, l, beh) ==
    IF input_size(T.A) # 1
    THEN [lp |-> l, caught |-> NoErr, tryres |-> "none", out |-> <<>>, ret |-> 0,
          kind |-> "none", how |-> "unwound"]
    ELSE LET r == try_call(T, l, Point(1), Zeros(1), beh) IN
         Entry(r, IF r.res = "Ok" THEN r.out[1] ELSE 0, "value")

----------------------------------------------------------------------------
(* Results and errors.                                                     *)

\* value.iter().zip(error.iter()).zip(prob.iter()).map(..).collect()
Shortest(a, b, c) ==
    IF Len(a) <= Len(b) /\ Len(a) <= Len(c) THEN Len(a)
    ELSE IF Len(b) <= Len(c) THEN Len(b) ELSE Len(c)
CubaZip(value, error, prob) ==
    [j \in 1..Shortest(value, error, prob) |->
        [value |-> value[j], error |-> error[j], prob |-> prob[j]]]

CubaIntegrationResults(nregions, neval, results) ==
    [nregions |-> nregions, neval |-> neval, results |-> results]
\* IntegrationResult { value, error } of the GSL adapters
IntegrationResult(value, error) ==
    [nregions |-> None, neval |-> 0,
     results |-> <<[value |-> value, error |-> error, prob |-> 0]>>]

BadDim(name, n) == [v |-> "BadDim", name |-> name, n |-> n, res |-> NoRes]
BadComp(name, n) == [v |-> "BadComp", name |-> name, n |-> n, res |-> NoRes]
DidNotConverge(res) == [v |-> "DidNotConverge", name |-> "", n |-> 0, res |-> res]
InvalidInputDim(n) == [v |-> "InvalidInputDim", name |-> "", n |-> n, res |-> NoRes]
InvalidOutputDim(n) == [v |-> "InvalidOutputDim", name |-> "", n |-> n, res |-> NoRes]
\* GSLError(code): code.c is the variant, code.n the number Other carries
GSLError(code) == [v |-> "GSLError", name |-> code.c, n |-> code.n, res |-> NoRes]

Ok(res) == [kind |-> "Ok", payload |-> NoErr, err |-> NoError, res |-> res]
Err(e) == [kind |-> "Err", payload |-> NoErr, err |-> e, res |-> NoRes]
\* integrate unwinds to its caller with payload p
Panic(p) == [kind |-> "panic", payload |-> p, err |-> NoError, res |-> NoRes]
\* the process dies inside the foreign call
Crash == [kind |-> "crash", payload |-> NoErr, err |-> NoError, res |-> NoRes]
\* a panic unwinds into the foreign routine's frames
ForeignUnwind(p) == [kind |-> "foreign_unwind", payload |-> p, err |-> NoError,
                     res |-> NoRes]

GSL_SUCCESS == 0
GSL_EDOM == 1
GSL_EMAXITER == 11
GSL_EROUND == 18
GSL_ESING == 21
GSL_EDIVERGE == 22

\* From<c_int> with the round-off and singularity codes exchanged
GSLErrorCode_from_Swapped(n) ==
    IF n = GSL_EMAXITER THEN [c |-> "MaxIter", n |-> 0]
    ELSE IF n = GSL_EROUND THEN [c |-> "Sing", n |-> 0]
    ELSE IF n = GSL_ESING THEN [c |-> "Round", n |-> 0]
    ELSE IF n = GSL_EDIVERGE THEN [c |-> "Diverge", n |-> 0]
    ELSE IF n = GSL_EDOM THEN [c |-> "Domain", n |-> 0]
    ELSE [c |-> "Other", n |-> n]

\* impl From<c_int> for GSLErrorCode
GSLErrorCode_from(n) ==
    IF n = GSL_EMAXITER THEN [c |-> "MaxIter", n |-> 0]
    ELSE IF n = GSL_EROUND THEN [c |-> "Round", n |-> 0]
    ELSE IF n = GSL_ESING THEN [c |-> "Sing", n |-> 0]
    ELSE IF n = GSL_EDIVERGE THEN [c |-> "Diverge", n |-> 0]
    ELSE IF n = GSL_EDOM THEN [c |-> "Domain", n |-> 0]
    ELSE [c |-> "Other", n |-> n]

\* impl Into<c_int> for GSLErrorCode (and GSLErrorCode::raw)
GSLErrorCode_raw(code) ==
    IF code.c = "MaxIter" THEN GSL_EMAXITER
    ELSE IF code.c = "Round" THEN GSL_EROUND
    ELSE IF code.c = "Sing" THEN GSL_ESING
    ELSE IF code.c = "Diverge" THEN GSL_EDIVERGE
    ELSE IF code.c = "Domain" THEN GSL_EDOM
    ELSE code.n

\* status mapping of Vegas with the baddim and badcomp codes exchanged
VegasStatus_Swapped(c) ==
    LET res == CubaIntegrationResults(None, c.neval,
                                      CubaZip(c.value, c.error, c.prob)) IN
    IF c.status = 0 THEN Ok(res)
    ELSE IF c.status = -2 THEN Err(BadDim("vegas", c.ndim))
    ELSE IF c.status = -1 THEN Err(BadComp("vegas", c.ncomp))
    ELSE IF c.status = 1 THEN Err(DidNotConverge(res))
    ELSE Panic(Payload("unreachable", c.status, 0))

\* Vegas::integrate, the if/else chain on `fail`
VegasStatus(c) ==
    IF c.status = 0
    THEN Ok(CubaIntegrationResults(None, c.neval, CubaZip(c.value, c.error, c.prob)))
    ELSE IF c.status = -1 THEN Err(BadDim("vegas", c.ndim))
    ELSE IF c.status = -2 THEN Err(BadComp("vegas", c.ncomp))
    ELSE IF c.status = 1
    THEN Err(DidNotConverge(
             CubaIntegrationResults(None, c.neval, CubaZip(c.value, c.error, c.prob))))
    ELSE Panic(Payload("unreachable", c.status, 0))

\* Suave::integrate, the if/else chain on `fail`
SuaveStatus(c) ==
    IF c.status = 0
    THEN Ok(CubaIntegrationResults(Some(c.nregions), c.neval,
                                   CubaZip(c.value, c.error, c.prob)))
    ELSE IF c.status = -1 THEN Err(BadDim("suave", c.ndim))
    ELSE IF c.status = -2 THEN Err(BadComp("suave", c.ncomp))
    ELSE IF c.status = 1
    THEN Err(DidNotConverge(
             CubaIntegrationResults(None, c.neval, CubaZip(c.value, c.error, c.prob))))
    ELSE Panic(Payload("unreachable", c.status, 0))

\* status mapping of Cuhre whose last branch returns the results as Ok
CuhreStatus_Coerce(c) ==
    LET res == CubaIntegrationResults(Some(c.nregions), c.neval,
                                      CubaZip(c.value, c.error, c.prob)) IN
    IF c.status = -1 THEN Err(BadDim("cuhre", c.ndim))
    ELSE IF c.status = -2 THEN Err(BadComp("cuhre", c.ncomp))
    ELSE IF c.status = 1 THEN Err(DidNotConverge(res))
    ELSE Ok(res)

\* Cuhre::integrate, the if/else chain on `fail`
CuhreStatus(c) ==
    IF c.status = 0
    THEN Ok(CubaIntegrationResults(Some(c.nregions), c.neval,
                                   CubaZip(c.value, c.error, c.prob)))
    ELSE IF c.status = -1 THEN Err(BadDim("cuhre", c.ndim))
    ELSE IF c.status = -2 THEN Err(BadComp("cuhre", c.ncomp))
    ELSE IF c.status = 1
    THEN Err(DidNotConverge(
             CubaIntegrationResults(Some(c.nregions), c.neval,
                                    CubaZip(c.value, c.error, c.prob))))
    ELSE Panic(Payload("unreachable", c.status, 0))

\* the GSL adapters: `if retcode != GSL_SUCCESS { Err(..) } else { Ok(..) }`
GslStatus(c) ==
    IF c.status # GSL_SUCCESS
    THEN Err(GSLError(GSLErrorCode_from(c.status)))
    ELSE Ok(IntegrationResult(c.value[1], c.error[1]))

----------------------------------------------------------------------------
(* integrate, up to the foreign call.  Each operator returns the            *)
(* LandingPad, the call handed to the foreign routine (if it is reached)    *)
(* and the outcome (if integrate ends before the foreign call).             *)

\* the integrand before it is wrapped: a closure that has run `calls` times
Bare(calls) == [err |-> NoErr, calls |-> calls, alive |-> FALSE]

Upto(l, c, o) == [lp |-> l, call |-> c, outcome |-> o]

\* cubacores that leaves Cuba's setting as it finds it
cubacores_Skip(c, n, p) == c

\* bindings::cubacores(n, p): Cuba forks n worker processes, none for n = 0.
\* c.ffi lists the foreign functions integrate has called, in order.
cubacores(c, n, p) ==
    [c EXCEPT !.cores = IF n = 0 THEN "off" ELSE "forking",
              !.ffi = Append(@, "cubacores")]

\* the foreign call with result buffers sized by the input arity
CubaCall_SizedByInput(c, routine, userdata, ndim, ncomp) ==
    [c EXCEPT !.userdata = userdata, !.entry = "cuba_integrand",
              !.ndim = ndim, !.ncomp = ncomp, !.invoked = TRUE,
              !.value = Zeros(ndim), !.error = Zeros(ndim),
              !.prob = Zeros(ndim), !.ffi = Append(@, routine)]

\* the call of llVegas / llSuave / llCuhre (`routine`) and its arguments;
\* c is the adapter side of the state when the call is made
CubaCall(c, routine, userdata, ndim, ncomp) ==
    [c EXCEPT !.userdata = userdata, !.entry = "cuba_integrand",
              !.ndim = ndim, !.ncomp = ncomp, !.invoked = TRUE,
              !.value = Zeros(ncomp), !.error = Zeros(ncomp),
              !.prob = Zeros(ncomp), !.ffi = Append(@, routine)]

\* let (ndim, ncomp) = { .. fun(A::from_args(&vec![0.5; inputs][..])).output_size() .. }
CubaProbe(T, beh) == CallFun(T, Bare(0), Point(input_size(T.A)), beh)

\* the adapter side of the state after the probe p: the output size it
\* reported (-1: it panicked)
Probed(c, T, p) ==
    [c EXCEPT !.probed = Append(@, IF p.panic # NoErr THEN -1
                                   ELSE output_size(T.B, p.val))]

\* Vegas::integrate before llVegas returns
Vegas_head(T, beh) ==
    LET p == CubaProbe(T, beh)
        c == Probed(cubacores(NoCall, 0, 0), T, p) IN
    IF p.panic # NoErr
    THEN Upto(Bare(p.calls), c, Panic(p.panic))
    ELSE Upto(LandingPad_new(p.calls),
              CubaCall(c, "llVegas", "LandingPad", input_size(T.A),
                       output_size(T.B, p.val)),
              NoOutcome)

\* Suave::integrate before llSuave returns: no LandingPad is made,
\* mem::transmute(&mut fun) is the user data.  `mem` is what the memory at
\* &fun holds where a LandingPad would hold err.
Suave_head(T, beh, mem) ==
    LET p == CubaProbe(T, beh)
        c == Probed(cubacores(NoCall, 0, 0), T, p) IN
    IF p.panic # NoErr
    THEN Upto(Bare(p.calls), c, Panic(p.panic))
    ELSE Upto([Bare(p.calls) EXCEPT !.err = mem],
              CubaCall(c, "llSuave", "closure", input_size(T.A),
                       output_size(T.B, p.val)),
              NoOutcome)

CuhreKeys == {7, 9, 11, 13}

\* c_longlong::max_value() as usize.  It is 2^63 - 1; the model keeps the
\* largest integer TLC has, since only the identity of the value matters.
c_longlong_max == 2147483647

\* Vegas::new (Default for Vegas)
Vegas_new ==
    [mineval |-> 1, maxeval |-> c_longlong_max, seed |-> 0, nstart |-> 1000,
     nincrease |-> 500, nbatch |-> 1000, gridno |-> 0, flags |-> 0]

\* Suave::new (Default for Suave)
Suave_new ==
    [mineval |-> 1, maxeval |-> c_longlong_max, seed |-> 0, nnew |-> 1000,
     nmin |-> 5, flatness |-> 25, flags |-> 0]

\* Cuhre::new
Cuhre_new(maxeval) == [mineval |-> 1, maxeval |-> maxeval, key |-> None]

\* S { field: v, ..self }
StructUpdate(self, field, v) == [self EXCEPT ![field] = v]

\* the builder methods of each Cuba adapter that return Self, and the field
\* each one's body assigns from its argument
Vegas_setters ==
    [with_mineval |-> "maxeval", with_maxeval |-> "maxeval", with_seed |-> "seed",
     with_nstart |-> "nstart", with_nincrease |-> "nincrease",
     with_nbatch |-> "nbatch"]
Suave_setters ==
    [with_mineval |-> "maxeval", with_maxeval |-> "maxeval", with_seed |-> "seed",
     with_nnew |-> "nnew", with_nmin |-> "nmin", with_flatness |-> "flatness"]
Cuhre_setters ==
    [with_mineval |-> "mineval", with_maxeval |-> "maxeval"]

\* Cuhre::with_key: None when rejected, else Some(configuration)
Cuhre_with_key(self, key) ==
    IF (IF key.some THEN key.n \in CuhreKeys ELSE TRUE)
    THEN [some |-> FALSE, c |-> self]
    ELSE [some |-> TRUE, c |-> [self EXCEPT !.key = key]]

\* let key = match (self.key, ndim) { .. }
CuhreKey(self, ndim) ==
    IF self.key.some THEN self.key.n
    ELSE IF ndim = 1 \/ ndim = 2 THEN 13
    ELSE IF ndim = 3 THEN 11
    ELSE 9

\* Cuhre::integrate before llCuhre returns
Cuhre_head(self, T, beh) ==
    LET p == CubaProbe(T, beh)
        c == Probed(cubacores(NoCall, 0, 0), T, p) IN
    IF p.panic # NoErr
    THEN Upto(Bare(p.calls), c, Panic(p.panic))
    ELSE IF CuhreKey(self, input_size(T.A)) \notin CuhreKeys
    THEN Upto(Bare(p.calls), c,
              Panic(Payload("assert_key", CuhreKey(self, input_size(T.A)), 0)))
    ELSE Upto(LandingPad_new(p.calls),
              CubaCall(c, "llCuhre", "LandingPad", input_size(T.A),
                       output_size(T.B, p.val)),
              NoOutcome)

\* make_gsl_function: Err(InvalidInputDim), Err(InvalidOutputDim) after a
\* second raw_call, Ok, or the unwinding panic of a raw_call
\* `probed` lists the output sizes the raw_calls reported (-1: it panicked)
make_gsl_function(T, l, beh1, beh2) ==
    IF input_size(T.A) # 1
    THEN [lp |-> l, res |-> "Err", err |-> InvalidInputDim(input_size(T.A)),
          unwind |-> NoErr, probed |-> <<>>]
    ELSE LET p1 == raw_call(T, l, Point(1), beh1)
             m1 == output_size(T.B, p1.val) IN
         IF p1.unwind # NoErr
         THEN [lp |-> p1.lp, res |-> "unwind", err |-> NoError, unwind |-> p1.unwind,
               probed |-> <<-1>>]
         ELSE IF m1 # 1
         THEN LET p2 == raw_call(T, p1.lp, Point(1), beh2)
                  m2 == output_size(T.B, p2.val) IN
              IF p2.unwind # NoErr
              THEN [lp |-> p2.lp, res |-> "unwind", err |-> NoError,
                    unwind |-> p2.unwind, probed |-> <<m1, -1>>]
              ELSE [lp |-> p2.lp, res |-> "Err", err |-> InvalidOutputDim(m2),
                    unwind |-> NoErr, probed |-> <<m1, m2>>]
         ELSE [lp |-> p1.lp, res |-> "Ok", err |-> NoError, unwind |-> NoErr,
               probed |-> <<m1>>]

\* the GSL adapters' integrate before gsl_integration_* returns:
\* LandingPad::new(fun), then make_gsl_function(&mut lp, ..)?
Gsl_head(T, beh1, beh2) ==
    LET g == make_gsl_function(T, LandingPad_new(0), beh1, beh2)
        dropped == [g.lp EXCEPT !.alive = FALSE]
        c == [NoCall EXCEPT !.probed = g.probed,
                            !.ffi = <<"gsl_set_error_handler_off">>]
    IN
    IF g.res = "unwind"
    THEN Upto(dropped, c, Panic(g.unwind))
    ELSE IF g.res = "Err"
    THEN Upto(dropped, c, Err(g.err))
    ELSE Upto(g.lp,
              [c EXCEPT !.userdata = "LandingPad", !.entry = "gsl_integrand_fn",
                        !.ndim = 1, !.ncomp = 1, !.invoked = TRUE,
                        !.value = Zeros(1), !.error = Zeros(1),
                        !.ffi = Append(@, "gsl_integration")],
              NoOutcome)

----------------------------------------------------------------------------
(* integrate, after the foreign routine has returned.                      *)

After(l, o) == [lp |-> l, outcome |-> o]

\* after a maybe_resume_unwind that unwinds the rest of integrate does not run
AfterResume(l, o) ==
    LET r == maybe_resume_unwind(l) IN
    After(r.lp, IF r.unwind # NoErr THEN Panic(r.unwind) ELSE o)

\* Vegas::integrate after llVegas: lp.maybe_resume_unwind(), then the status
Vegas_tail(l, c) == AfterResume(l, VegasStatus(c))

\* Cuhre::integrate after llCuhre: lp.maybe_resume_unwind(), then the status
Cuhre_tail(l, c) == AfterResume(l, CuhreStatus(c))

\* Suave::integrate after llSuave: the status alone
Suave_tail(l, c) == After(l, SuaveStatus(c))

\* the GSL adapters after gsl_integration_*: lp.maybe_resume_unwind(), then
\* the return code
Gsl_tail(l, c) == AfterResume(l, GslStatus(c))

----------------------------------------------------------------------------
(* Spec: one integrate call on one adapter.                                *)

\* the status codes the Cuba routines are taken to return (0, 1, -1, -2 are
\* documented; -99 follows an abort; 2 stands for any other)
CubaStatuses == {0, 1, -1, -2, -99, 2}
\* GSL return codes: the five named ones, success, and three others
\* (GSL_FAILURE, GSL_EFAILED, GSL_ETOL)
GslStatuses == {GSL_SUCCESS, GSL_EDOM, GSL_EMAXITER, GSL_EROUND, GSL_ESING,
                GSL_EDIVERGE, -1, 5, 14}

\* the Cuhre configurations the constructor and with_key can produce
KeyInputs == {None} \cup {Some(k) : k \in {5, 7, 9, 11, 13}}
CuhreConfs ==
    {Cuhre_new(1)} \cup
    {Cuhre_with_key(Cuhre_new(1), k).c :
        k \in {k \in KeyInputs : Cuhre_with_key(Cuhre_new(1), k).some}}

Init ==
    /\ ty \in [A : InputTypes, B : OutputTypes]
    /\ ad \in Adapters
    /\ conf \in (IF ad = "Cuhre" THEN CuhreConfs
                 ELSE IF ad = "Vegas" THEN {Vegas_new}
                 ELSE IF ad = "Suave" THEN {Suave_new} ELSE {NoConf})
    /\ lp = Bare(0)
    /\ last = Op("none", "none", NoErr, NoErr, NoErr, Bare(0), <<>>, <<>>)
    /\ ghost = NoGhost
    /\ pc = "idle"
    /\ call = NoCall
    /\ cb = NoCb
    /\ outcome = NoOutcome
    /\ tr = NoTr /\ heap = NoHeap /\ objs = NoObjs /\ log = NoLog

\* integrate runs up to the foreign call, or to its early end
Begin(h) ==
    /\ lp' = h.lp
    /\ call' = h.call
    /\ outcome' = h.outcome
    /\ pc' = IF h.outcome = NoOutcome THEN "foreign" ELSE "done"
    /\ UNCHANGED <<ty, last, ghost, ad, cb, conf, tr, heap, objs, log>>

Vegas_integrate ==
    /\ pc = "idle" /\ ad = "Vegas"
    /\ \E beh \in Behaviours(ty.B) : Begin(Vegas_head(ty, beh))

Suave_integrate ==
    /\ pc = "idle" /\ ad = "Suave"
    /\ \E beh \in Behaviours(ty.B), mem \in {NoErr, Garbage} :
          Begin(Suave_head(ty, beh, mem))

Cuhre_integrate ==
    /\ pc = "idle" /\ ad = "Cuhre"
    /\ \E beh \in Behaviours(ty.B) : Begin(Cuhre_head(conf, ty, beh))

Gsl_integrate(a) ==
    /\ pc = "idle" /\ ad = a
    /\ \E beh1 \in Behaviours(ty.B), beh2 \in Behaviours(ty.B) :
          Begin(Gsl_head(ty, beh1, beh2))

QNG_integrate == Gsl_integrate("QNG")
QAG_integrate == Gsl_integrate("QAG")
QAGS_integrate == Gsl_integrate("QAGS")
QAGP_integrate == Gsl_integrate("QAGP")
QAWC_integrate == Gsl_integrate("QAWC")
QAGI_integrate == Gsl_integrate("QAGI")
QAGIU_integrate == Gsl_integrate("QAGIU")
QAGIL_integrate == Gsl_integrate("QAGIL")

\* the record of one call of an entry point; vlen is the number of
\* components of the value the integrand returned in it (-1: the integrand
\* was not invoked, or panicked)
Called(r, beh) ==
    [n |-> cb.n + 1, tryres |-> r.tryres, ret |-> r.ret, kind |-> r.kind,
     how |-> r.how, out |-> r.out,
     vlen |-> IF r.lp.calls = lp.calls \/ beh.panics THEN -1
              ELSE Len(Invoke(ty.B, r.lp.calls, beh).val)]

AfterEntry(r, beh) ==
    /\ lp' = r.lp
    /\ cb' = Called(r, beh)
    /\ ghost' = GhostAfter(ghost, lp, r)
    /\ IF r.how = "returned"
       THEN UNCHANGED <<pc, outcome>>
       ELSE pc' = "done" /\ outcome' = ForeignUnwind(r.caught)
    /\ UNCHANGED <<ty, last, ad, call, conf, tr, heap, objs, log>>

\* a Cuba routine calls cuba_integrand once more (not after an abort)
CubaCallback ==
    /\ pc = "foreign" /\ call.entry = "cuba_integrand"
    /\ cb.n < MaxCalls
    /\ ~(cb.kind = "status" /\ cb.ret = CUBA_ABORT)
    /\ call.userdata = "LandingPad"
    /\ \E beh \in Behaviours(ty.B) :
          AfterEntry(cuba_integrand(ty, lp, call.ndim, call.ncomp, beh), beh)

\* llSuave calls cuba_integrand, which takes the closure at userdata for a
\* LandingPad: it runs on whatever that memory holds ...
SuaveCallback ==
    /\ pc = "foreign" /\ call.entry = "cuba_integrand"
    /\ cb.n < MaxCalls
    /\ ~(cb.kind = "status" /\ cb.ret = CUBA_ABORT)
    /\ call.userdata = "closure"
    /\ \E beh \in Behaviours(ty.B) :
          AfterEntry(cuba_integrand(ty, lp, call.ndim, call.ncomp, beh), beh)

\* ... or the process dies in it
SuaveCallbackCrash ==
    /\ pc = "foreign" /\ call.entry = "cuba_integrand"
    /\ cb.n < MaxCalls
    /\ ~(cb.kind = "status" /\ cb.ret = CUBA_ABORT)
    /\ call.userdata = "closure"
    /\ cb' = [cb EXCEPT !.n = cb.n + 1, !.tryres = "none", !.kind = "none",
                        !.how = "crashed", !.out = <<>>, !.vlen = -1]
    /\ pc' = "done"
    /\ outcome' = Crash
    /\ UNCHANGED <<ty, lp, last, ghost, ad, call, conf, tr, heap, objs, log>>

\* a GSL routine calls gsl_integrand_fn once more
GslCallback ==
    /\ pc = "foreign" /\ call.entry = "gsl_integrand_fn"
    /\ cb.n < MaxCalls
    /\ \E beh \in Behaviours(ty.B) : AfterEntry(gsl_integrand_fn(ty, lp, beh), beh)

\* what the foreign routine leaves behind when it returns status st
ForeignWrites(c, st, fill) ==
    [c EXCEPT !.returned = TRUE, !.status = st,
              !.value = [j \in 1..Len(c.value) |-> 3 * (j + fill)],
              !.error = [j \in 1..Len(c.error) |-> 3 * (j + fill) + 1],
              !.prob = [j \in 1..Len(c.prob) |-> 3 * (j + fill) + 2],
              !.nregions = fill + 1, !.neval = cb.n + fill]

End(c, t) ==
    /\ call' = c
    /\ lp' = t.lp
    /\ outcome' = t.outcome
    /\ pc' = "done"
    /\ UNCHANGED <<ty, last, ghost, ad, cb, conf, tr, heap, objs, log>>

Vegas_return ==
    /\ pc = "foreign" /\ ad = "Vegas"
    /\ \E st \in CubaStatuses, fill \in 0..MaxFill :
          LET c == ForeignWrites(call, st, fill) IN End(c, Vegas_tail(lp, c))

Suave_return ==
    /\ pc = "foreign" /\ ad = "Suave"
    /\ \E st \in CubaStatuses, fill \in 0..MaxFill :
          LET c == ForeignWrites(call, st, fill) IN End(c, Suave_tail(lp, c))

Cuhre_return ==
    /\ pc = "foreign" /\ ad = "Cuhre"
    /\ \E st \in CubaStatuses, fill \in 0..MaxFill :
          LET c == ForeignWrites(call, st, fill) IN End(c, Cuhre_tail(lp, c))

Gsl_return ==
    /\ pc = "foreign" /\ ad \in GslAdapters
    /\ \E st \in GslStatuses, fill \in 0..MaxFill :
          LET c == ForeignWrites(call, st, fill) IN End(c, Gsl_tail(lp, c))

Next ==
    \/ Vegas_integrate
    \/ Suave_integrate
    \/ Cuhre_integrate
    \/ QNG_integrate
    \/ QAG_integrate
    \/ QAGS_integrate
    \/ QAGP_integrate
    \/ QAWC_integrate
    \/ QAGI_integrate
    \/ QAGIU_integrate
    \/ QAGIL_integrate
    \/ CubaCallback
    \/ SuaveCallback
    \/ SuaveCallbackCrash
    \/ GslCallback
    \/ Vegas_return
    \/ Suave_return
    \/ Cuhre_return
    \/ Gsl_return

Spec == Init /\ [][Next]_vars

----------------------------------------------------------------------------
(* SpecTraits: a caller uses IntegrandInput / IntegrandOutput directly, as *)
(* the tests of traits.rs do.  ty.A is the tuple type under test, ty.B the *)
(* output type under test.                                                 *)

\* a buffer of length m whose elements all differ
Buf(m, o) == [j \in 1..m |-> 10 * j + o]

\* some values of an output type
Values(B) ==
    IF B.k = "vec"
    THEN {Buf(m, o) : m \in 0..MaxVecLen, o \in 0..MaxOff}
    ELSE {Buf(B.n, o) : o \in 0..MaxOff}

InitTr ==
    /\ ty \in [A : InputTypes, B : OutputTypes]
    /\ lp = Bare(0)
    /\ last = Op("none", "none", NoErr, NoErr, NoErr, Bare(0), <<>>, <<>>)
    /\ ghost = NoGhost
    /\ ad = "none"
    /\ pc = "idle"
    /\ call = NoCall
    /\ cb = NoCb
    /\ outcome = NoOutcome
    /\ conf = NoConf
    /\ tr = NoTr /\ heap = NoHeap /\ objs = NoObjs /\ log = NoLog

notTr == <<ty, lp, last, ghost, ad, pc, call, cb, outcome, conf, heap, objs, log>>

\* A::input_size() and v.output_size()
Traits_sizes ==
    /\ \E v \in Values(ty.B) :
          tr' = [NoTr EXCEPT !.op = "sizes", !.val = v,
                             !.isize = input_size(ty.A),
                             !.osize = output_size(ty.B, v)]
    /\ UNCHANGED notTr

\* A::from_args(&args)
Traits_from_args ==
    /\ \E m \in Lens(ty.A.n), o \in 0..MaxOff :
          LET r == from_args(ty.A, Buf(m, o)) IN
          tr' = [NoTr EXCEPT !.op = "from_args", !.args = Buf(m, o),
                             !.back = r.val, !.panic = r.panic]
    /\ UNCHANGED notTr

\* v.into_args(&mut out)
Traits_into_args ==
    /\ \E v \in Values(ty.B), m \in OutLens(ty.B) :
          LET w == into_args(ty.B, v, Zeros(m)) IN
          tr' = [NoTr EXCEPT !.op = "into_args", !.val = v, !.args = Zeros(m),
                             !.out = w.out, !.panic = w.panic]
    /\ UNCHANGED notTr

\* x.into_args(&mut buf) with buf of the tuple's length, then A::from_args(&buf)
Traits_into_from ==
    /\ \E x \in Values(ty.A) :
          LET w == into_args(ty.A, x, Zeros(ty.A.n))
              r == from_args(ty.A, w.out) IN
          tr' = [NoTr EXCEPT !.op = "into_from", !.val = x, !.out = w.out,
                             !.back = IF w.panic = NoErr THEN r.val ELSE <<>>,
                             !.panic = IF w.panic = NoErr THEN r.panic ELSE w.panic]
    /\ UNCHANGED notTr

\* A::from_args(&buf) with buf of the tuple's length, then into_args(&mut out)
Traits_from_into ==
    /\ \E o \in 0..MaxOff :
          LET r == from_args(ty.A, Buf(ty.A.n, o))
              w == into_args(ty.A, r.val, Zeros(ty.A.n)) IN
          tr' = [NoTr EXCEPT !.op = "from_into", !.args = Buf(ty.A.n, o),
                             !.back = r.val,
                             !.out = IF r.panic = NoErr THEN w.out ELSE <<>>,
                             !.panic = IF r.panic = NoErr THEN w.panic ELSE r.panic]
    /\ UNCHANGED notTr

NextTr ==
    \/ Traits_sizes
    \/ Traits_from_args
    \/ Traits_into_args
    \/ Traits_into_from
    \/ Traits_from_into

SpecTraits == InitTr /\ [][NextTr]_vars

----------------------------------------------------------------------------
(* gsl: GSLIntegrationWorkspace and the adapters that own one.  A foreign *)
(* workspace is named by a number; GSL never hands out the same one twice *)
(* here, so that a use after free or a second free is visible.             *)

\* an f64: a number or NaN
f64(v) == [nan |-> FALSE, v |-> v]
NaN == [nan |-> TRUE, v |-> 0]
\* a >= b on f64 (false when either side is NaN)
f64_ge(a, b) == ~a.nan /\ ~b.nan /\ a.v >= b.v

\* verify_singular_points: None, or Some(pts)
verify_singular_points(pts) ==
    IF Len(pts) < 2 THEN [some |-> FALSE, pts |-> <<>>]
    ELSE IF \E i \in 1..(Len(pts) - 1) : f64_ge(pts[i], pts[i + 1])
    THEN [some |-> FALSE, pts |-> <<>>]
    ELSE [some |-> TRUE, pts |-> pts]

\* one foreign call on workspace w, which was in state st when called
Ev(e, w, st) == [e |-> e, w |-> w, st |-> st]

Unused(h) == {w \in 1..MaxWs : h[w].st = "unused"}
Least(S) == CHOOSE x \in S : \A y \in S : x <= y

\* GSLIntegrationWorkspace::new(n): gsl_integration_workspace_alloc(n)
GSLIntegrationWorkspace_new(h, n) ==
    LET w == Least(Unused(h)) IN
    [heap |-> [h EXCEPT ![w] = [st |-> "live", n |-> n, frees |-> 0]],
     wkspc |-> [nintervals |-> n, wkspc |-> w],
     events |-> <<Ev("alloc", w, "unused")>>]

\* Drop for GSLIntegrationWorkspace: gsl_integration_workspace_free(self.wkspc)
GSLIntegrationWorkspace_drop(h, ws) ==
    [heap |-> [h EXCEPT ![ws.wkspc].st = "freed", ![ws.wkspc].frees = @ + 1],
     events |-> <<Ev("free", ws.wkspc, h[ws.wkspc].st)>>]

\* a Clone that copies the pointer
GSLIntegrationWorkspace_clone_Shallow(h, ws) ==
    [heap |-> h, wkspc |-> ws, events |-> <<>>]

\* Clone for GSLIntegrationWorkspace: a new workspace of the same size
GSLIntegrationWorkspace_clone(h, ws) ==
    GSLIntegrationWorkspace_new(h, ws.nintervals)

\* the adapters that own a workspace
WsAdapters == {"QAG", "QAGS", "QAGP", "QAWC", "QAGI", "QAGIU", "QAGIL"}
\* those with #[derive(Clone)]
CloneAdapters == WsAdapters \ {"QAGP"}
\* those with a setter other than with_nintervals (with_range, with_rule,
\* with_singularity)
SetterAdapters == {"QAG", "QAGS", "QAWC"}

\* QAG::new(nintervals) and the like
Adapter_new(h, kind, n) ==
    LET a == GSLIntegrationWorkspace_new(h, n) IN
    [heap |-> a.heap, obj |-> [kind |-> kind, wkspc |-> a.wkspc, pts |-> <<>>],
     events |-> a.events]

\* QAGP::new(nintervals, iter): verify_singular_points(iter)? comes first
QAGP_new(h, n, pts) ==
    LET v == verify_singular_points(pts) IN
    IF ~v.some
    THEN [heap |-> h, some |-> FALSE, obj |-> NoObj, events |-> <<>>]
    ELSE LET a == GSLIntegrationWorkspace_new(h, n) IN
         [heap |-> a.heap, some |-> TRUE,
          obj |-> [kind |-> "QAGP", wkspc |-> a.wkspc, pts |-> v.pts],
          events |-> a.events]

\* with_nintervals(self, nintervals): Self { wkspc: new(nintervals), ..self };
\* the field initializer runs first, the wkspc left in self is dropped when
\* the function ends
with_nintervals(h, self, n) ==
    LET a == GSLIntegrationWorkspace_new(h, n)
        d == GSLIntegrationWorkspace_drop(a.heap, self.wkspc) IN
    [heap |-> d.heap, obj |-> [self EXCEPT !.wkspc = a.wkspc],
     events |-> a.events \o d.events]

\* QAGP::with_points(self, iter): on None self is dropped, on Some the
\* workspace moves into the new value
QAGP_with_points(h, self, pts) ==
    LET v == verify_singular_points(pts) IN
    IF ~v.some
    THEN LET d == GSLIntegrationWorkspace_drop(h, self.wkspc) IN
         [heap |-> d.heap, some |-> FALSE, obj |-> NoObj, events |-> d.events]
    ELSE [heap |-> h, some |-> TRUE, obj |-> [self EXCEPT !.pts = v.pts],
          events |-> <<>>]

\* #[derive(Clone)] on the adapter
Adapter_clone(h, self) ==
    LET a == GSLIntegrationWorkspace_clone(h, self.wkspc) IN
    [heap |-> a.heap, obj |-> [self EXCEPT !.wkspc = a.wkspc], events |-> a.events]

\* dropping an adapter drops its workspace
Adapter_drop(h, self) == GSLIntegrationWorkspace_drop(h, self.wkspc)

\* integrate(&mut self, ..) of a workspace-owning adapter with one callback:
\* whether gsl_integration_* was called with self.wkspc.wkspc, and the outcome.
\* g is integrate up to the foreign call, Gsl_head(T, beh1, beh2).
Adapter_integrate(h, self, T, g, behc, st) ==
    IF g.outcome # NoOutcome
    THEN [events |-> <<>>, outcome |-> g.outcome]
    ELSE LET e == gsl_integrand_fn(T, g.lp, behc)
             t == Gsl_tail(e.lp, ForeignWrites(g.call, st, 0)) IN
         [events |-> <<Ev("use", self.wkspc.wkspc, h[self.wkspc.wkspc].st)>>,
          outcome |-> t.outcome]

----------------------------------------------------------------------------
(* SpecWs: a caller builds, resizes, configures, clones, runs and drops   *)
(* workspace-owning adapters.                                              *)

PtVals == {f64(0), f64(1), NaN}
\* the sequences over S of length at most n
SeqsUpTo(S, n) == UNION {[1..m -> S] : m \in 0..n}
PointLists == SeqsUpTo(PtVals, MaxPts)
\* the point lists tried while adapters are built and dropped: too short,
\* ascending, descending, and one with a NaN
WsPointLists == {<<f64(0)>>, <<f64(0), f64(1)>>, <<f64(1), f64(0)>>, <<NaN, f64(1)>>}

\* the integrate calls tried: an integrand Real -> Real, (Real, Real) -> Real
\* or Real -> (Real, Real) that returns (r) or panics (p) in the first probe,
\* the second probe and the callback, and the code GSL returns
Returns == [panics |-> FALSE, vlen |-> 0]
Panics == [panics |-> TRUE, vlen |-> 0]
WsRun(a, b, beh1, beh2, behc, st) ==
    [T |-> [A |-> TupleT(a), B |-> TupleT(b)], beh1 |-> beh1, beh2 |-> beh2,
     behc |-> behc, st |-> st]
WsRuns ==
    {WsRun(1, 1, Returns, Returns, Returns, GSL_SUCCESS),
     WsRun(1, 1, Returns, Returns, Returns, GSL_EMAXITER),
     WsRun(1, 1, Returns, Returns, Panics, GSL_SUCCESS),
     WsRun(1, 1, Panics, Returns, Returns, GSL_SUCCESS),
     WsRun(2, 1, Returns, Returns, Returns, GSL_SUCCESS),
     WsRun(1, 2, Returns, Returns, Returns, GSL_SUCCESS),
     WsRun(1, 2, Returns, Panics, Returns, GSL_SUCCESS)}

InitWs ==
    /\ ty = [A |-> TupleT(1), B |-> TupleT(1)]
    /\ lp = Bare(0)
    /\ last = Op("none", "none", NoErr, NoErr, NoErr, Bare(0), <<>>, <<>>)
    /\ ghost = NoGhost
    /\ ad = "none"
    /\ pc = "idle"
    /\ call = NoCall
    /\ cb = NoCb
    /\ outcome = NoOutcome
    /\ conf = NoConf
    /\ tr = NoTr /\ heap = NoHeap /\ objs = NoObjs /\ log = NoLog

notWs == <<ty, lp, last, ghost, ad, pc, call, cb, outcome, conf, tr>>

Empty == {o \in 1..MaxObjs : objs[o].kind = "none"}
Owned == {o \in 1..MaxObjs : objs[o].kind # "none"}

Logged(op, events, res, pts) ==
    [op |-> op, events |-> events, res |-> res, pts |-> pts]

Ws_new ==
    /\ Empty # {} /\ Unused(heap) # {}
    /\ \E kind \in WsAdapters \ {"QAGP"}, n \in 1..MaxIntervals :
          LET r == Adapter_new(heap, kind, n)
              o == Least(Empty) IN
          /\ heap' = r.heap
          /\ objs' = [objs EXCEPT ![o] = r.obj]
          /\ log' = Logged("new", r.events, "Self", <<>>)
    /\ UNCHANGED notWs

\* QAGP::new(n, pts) with pts from the lists L
QAGP_new_from(L) ==
    /\ Empty # {} /\ Unused(heap) # {}
    /\ \E n \in 1..MaxIntervals, pts \in L :
          LET r == QAGP_new(heap, n, pts)
              o == Least(Empty) IN
          /\ heap' = r.heap
          /\ objs' = [objs EXCEPT ![o] = r.obj]
          /\ log' = Logged("QAGP_new", r.events,
                           IF r.some THEN "Some" ELSE "None", pts)
    /\ UNCHANGED notWs

Ws_with_nintervals ==
    /\ Unused(heap) # {}
    /\ \E o \in Owned, n \in 1..MaxIntervals :
          LET r == with_nintervals(heap, objs[o], n) IN
          /\ heap' = r.heap
          /\ objs' = [objs EXCEPT ![o] = r.obj]
          /\ log' = Logged("with_nintervals", r.events, "Self", <<>>)
    /\ UNCHANGED notWs

\* with_range / with_rule / with_singularity: Self { field, ..self }
Ws_setter ==
    /\ \E o \in Owned :
          /\ objs[o].kind \in SetterAdapters
          /\ log' = Logged("setter", <<>>, "Self", <<>>)
    /\ UNCHANGED <<heap, objs>>
    /\ UNCHANGED notWs

\* qagp.with_points(pts) with pts from the lists L
QAGP_with_points_from(L) ==
    /\ \E o \in Owned, pts \in L :
          /\ objs[o].kind = "QAGP"
          /\ LET r == QAGP_with_points(heap, objs[o], pts) IN
                /\ heap' = r.heap
                /\ objs' = [objs EXCEPT ![o] = r.obj]
                /\ log' = Logged("with_points", r.events,
                                 IF r.some THEN "Some" ELSE "None", pts)
    /\ UNCHANGED notWs

Ws_QAGP_new == QAGP_new_from(WsPointLists)
Ws_QAGP_with_points == QAGP_with_points_from(WsPointLists)

Ws_clone ==
    /\ Empty # {} /\ Unused(heap) # {}
    /\ \E o \in Owned :
          /\ objs[o].kind \in CloneAdapters
          /\ LET r == Adapter_clone(heap, objs[o])
                 c == Least(Empty) IN
                /\ heap' = r.heap
                /\ objs' = [objs EXCEPT ![c] = r.obj]
                /\ log' = Logged("clone", r.events, "Self", <<>>)
    /\ UNCHANGED notWs

Ws_integrate ==
    /\ \E o \in Owned, run \in WsRuns :
       \E g \in {Gsl_head(run.T, run.beh1, run.beh2)} :
       \E r \in {Adapter_integrate(heap, objs[o], run.T, g, run.behc, run.st)} :
          log' = Logged("integrate", r.events,
                        IF r.outcome.kind = "Err" THEN r.outcome.err.v
                        ELSE r.outcome.kind, <<>>)
    /\ UNCHANGED <<heap, objs>>
    /\ UNCHANGED notWs

Ws_drop ==
    /\ \E o \in Owned :
          LET r == Adapter_drop(heap, objs[o]) IN
          /\ heap' = r.heap
          /\ objs' = [objs EXCEPT ![o] = NoObj]
          /\ log' = Logged("drop", r.events, "unit", <<>>)
    /\ UNCHANGED notWs

NextWs ==
    \/ Ws_new
    \/ Ws_QAGP_new
    \/ Ws_with_nintervals
    \/ Ws_setter
    \/ Ws_QAGP_with_points
    \/ Ws_clone
    \/ Ws_integrate
    \/ Ws_drop

SpecWs == InitWs /\ [][NextWs]_vars

----------------------------------------------------------------------------
(* SpecPts: a caller builds QAGP adapters and replaces their points, with *)
(* every point list up to MaxPts points.                                   *)

Pts_QAGP_new == QAGP_new_from(PointLists)
Pts_QAGP_with_points == QAGP_with_points_from(PointLists)
Pts_drop == Ws_drop

NextPts ==
    \/ Pts_QAGP_new
    \/ Pts_QAGP_with_points
    \/ Pts_drop

SpecPts == InitWs /\ [][NextPts]_vars

----------------------------------------------------------------------------
(* SpecCfg: a caller builds a Cuba adapter with new and the builder         *)
(* methods.  conf is the adapter value the caller holds; log is the last    *)
(* builder call: its name, its argument, the value it was called on and     *)
(* whether it returned a value (with_key returns an Option).                *)

SetValues == 0..MaxSet

CfgLog(op, arg, before, res) ==
    [op |-> op, arg |-> arg, before |-> before, res |-> res]

InitCfg ==
    /\ ad \in CubaAdapters
    /\ conf = (IF ad = "Vegas" THEN Vegas_new
               ELSE IF ad = "Suave" THEN Suave_new ELSE Cuhre_new(1))
    /\ log = CfgLog("new", None, conf, "Self")
    /\ ty = [A |-> TupleT(1), B |-> TupleT(1)]
    /\ lp = Bare(0)
    /\ last = Op("none", "none", NoErr, NoErr, NoErr, Bare(0), <<>>, <<>>)
    /\ ghost = NoGhost
    /\ pc = "idle"
    /\ call = NoCall
    /\ cb = NoCb
    /\ outcome = NoOutcome
    /\ tr = NoTr /\ heap = NoHeap /\ objs = NoObjs

\* a builder method of `setters` is called on conf with the argument v
Cfg_setter(setters) ==
    /\ \E m \in DOMAIN setters, v \in SetValues :
          /\ conf' = StructUpdate(conf, setters[m], v)
          /\ log' = CfgLog(m, Some(v), conf, "Self")
    /\ UNCHANGED <<ty, lp, last, ghost, ad, pc, call, cb, outcome, tr, heap, objs>>

Cfg_Vegas_setter == ad = "Vegas" /\ Cfg_setter(Vegas_setters)
Cfg_Suave_setter == ad = "Suave" /\ Cfg_setter(Suave_setters)
Cfg_Cuhre_setter == ad = "Cuhre" /\ Cfg_setter(Cuhre_setters)

\* Cuhre::with_key; Cuhre is Copy, so after a None the caller still holds
\* the value the method was called on
Cfg_Cuhre_with_key ==
    /\ ad = "Cuhre"
    /\ \E key \in KeyInputs :
          LET r == Cuhre_with_key(conf, key) IN
          /\ conf' = IF r.some THEN r.c ELSE conf
          /\ log' = CfgLog("with_key", key, conf, IF r.some THEN "Some" ELSE "None")
    /\ UNCHANGED <<ty, lp, last, ghost, ad, pc, call, cb, outcome, tr, heap, objs>>

NextCfg ==
    \/ Cfg_Vegas_setter
    \/ Cfg_Suave_setter
    \/ Cfg_Cuhre_setter
    \/ Cfg_Cuhre_with_key

SpecCfg == InitCfg /\ [][NextCfg]_vars

----------------------------------------------------------------------------
(* Claims about LandingPad, under SpecLP *)

\* C1 (fail-once): a try_call made on a LandingPad that already holds a
\* captured failure returns Err with that same failure and does not invoke
\* the integrand; so once the integrand has failed on its k-th invocation
\* through try_call, the count of invocations through try_call stays at k.
C1_FailOnce ==
    /\ (last.op = "try_call" /\ last.before.err # NoErr) =>
          /\ last.res = "Err"
          /\ last.ref = ghost.firstErr
          /\ lp.err = ghost.firstErr
          /\ lp.calls = last.before.calls
    /\ (ghost.firstErr # NoErr) =>
          /\ ghost.tryInv = ghost.invAtFail
          /\ lp.alive => lp.err = ghost.firstErr

\* C1 witness: the integrand failed on its 2nd invocation and a later
\* try_call has just returned the stored failure
C1_Witness ==
    /\ last.op = "try_call"
    /\ last.before.err = IntegrandPanic(2)
    /\ last.res = "Err"
    /\ ghost.invAtFail = 2

\* C2: try_call never unwinds to its caller; whatever panic arises inside it
\* (integrand, from_args, into_args) is stored in the LandingPad and
\* reported as the Err return value.
C2_FailureIntercepted ==
    last.op = "try_call" =>
        /\ last.unwind = NoErr
        /\ last.res \in {"Ok", "Err"}
        /\ last.caught # NoErr =>
              (last.res = "Err" /\ last.ref = last.caught /\ lp.err = last.caught)
        /\ last.res = "Ok" => (last.caught = NoErr /\ lp.err = NoErr)

\* C2 witness: a length mismatch in from_args was captured by try_call
C2_Witness ==
    /\ last.op = "try_call"
    /\ last.caught.kind = "assert_from_args"
    /\ last.res = "Err"
    /\ lp.err = last.caught

\* C3: maybe_resume_unwind consumes the LandingPad; it re-raises exactly
\* the payload that was captured, and returns normally when none was.
C3_ResumeFidelity ==
    last.op = "maybe_resume_unwind" =>
        /\ ~lp.alive
        /\ last.unwind = ghost.firstErr
        /\ last.unwind = last.before.err
        /\ (ghost.firstErr = NoErr) = (last.res = "unit")

\* C3 witness: the integrand's own panic was captured and is re-raised
C3_Witness ==
    /\ last.op = "maybe_resume_unwind"
    /\ last.unwind.kind = "integrand"
    /\ ~lp.alive

\* C4: finish consumes the LandingPad and never re-raises; it returns
\* Some(the captured failure) when an earlier try_call failed and None
\* when none did (a fresh LandingPad included).
C4_FinishInspects ==
    last.op = "finish" =>
        /\ ~lp.alive
        /\ last.unwind = NoErr
        /\ (ghost.firstErr # NoErr) => (last.res = "Some" /\ last.ref = ghost.firstErr)
        /\ (ghost.firstErr = NoErr) => (last.res = "None" /\ last.ref = NoErr)

\* C4 witness: finish returned Some(payload) after a failed try_call
C4_Witness ==
    /\ last.op = "finish"
    /\ last.res = "Some"
    /\ last.ref.kind = "integrand"
    /\ ghost.tryInv >= 1

----------------------------------------------------------------------------
(* Claims about the adapters, under Spec *)

\* the name each Cuba adapter puts in BadDim / BadComp
AlgName == [a \in CubaAdapters |->
              IF a = "Vegas" THEN "vegas" ELSE IF a = "Suave" THEN "suave" ELSE "cuhre"]

\* one entry per output dimension, entry j from value[j], error[j], prob[j]
PerDimension(c) ==
    [j \in 1..c.ncomp |-> [value |-> c.value[j], error |-> c.error[j],
                           prob |-> c.prob[j]]]

\* the integrand itself panicked in a callback of the foreign routine
FailedInCallback == ghost.firstErr.kind = "integrand"

C6_UserDataIsLandingPad ==
    call.invoked =>
        /\ call.userdata = "LandingPad"
        /\ pc = "foreign" => lp.alive

\* C7: every call of cuba_integrand / gsl_integrand_fn made by a foreign
\* routine returns a value normally, and gsl_integrand_fn is registered only
\* for integrands of input arity 1 (its explicit panic is unreachable).
C7_EntryPointsReturn ==
    /\ cb.how \in {"none", "returned"}
    /\ call.entry = "gsl_integrand_fn" => input_size(ty.A) = 1

\* C8 as claimed: for every backend, when try_call returns Err the entry
\* point returns the abort status code and not a numeric result, and it
\* returns success / the computed value only when try_call returns Ok.
C8_AbortStatusOnErr ==
    cb.how = "returned" =>
        /\ cb.tryres = "Err" => (cb.kind = "status" /\ cb.ret = CUBA_ABORT)
        /\ (cb.kind = "status" /\ cb.ret = 0) => cb.tryres = "Ok"

\* C8 as amended: cuba_integrand returns -999 exactly when try_call returns
\* Err and 0 when it returns Ok; gsl_integrand_fn, which returns a Real,
\* returns 0.0 when try_call returns Err and output[0] when it returns Ok,
\* and after a failure its later calls do not invoke the integrand.
C8_EntryMapsTryCall ==
    cb.how = "returned" =>
        /\ cb.tryres \in {"Ok", "Err"}
        /\ call.entry = "cuba_integrand" =>
              /\ cb.kind = "status"
              /\ cb.tryres = "Err" => cb.ret = CUBA_ABORT
              /\ cb.tryres = "Ok" => cb.ret = 0
        /\ call.entry = "gsl_integrand_fn" =>
              /\ cb.kind = "value"
              /\ cb.tryres = "Err" => (cb.ret = 0 /\ cb.out = Zeros(1))
              /\ cb.tryres = "Ok" => (cb.ret = cb.out[1] /\ cb.ret = lp.calls)
              /\ ghost.firstErr # NoErr => ghost.tryInv = ghost.invAtFail

\* C8 witness: a GSL routine went on calling after a failure and got 0.0
C8_Witness ==
    /\ call.entry = "gsl_integrand_fn"
    /\ cb.how = "returned"
    /\ cb.n = 2
    /\ cb.tryres = "Err"
    /\ cb.kind = "value" /\ cb.ret = 0
    /\ ghost.invAtFail = 1

\* C9: in Cuhre, Vegas and Suave, with no failure captured, status 0 gives
\* Ok(results), -1 gives Err(BadDim(name, input arity)), -2 gives
\* Err(BadComp(name, output arity)) and 1 gives Err(DidNotConverge(results)).
C9_CubaStatusMapping ==
    (pc = "done" /\ ad \in CubaAdapters /\ call.returned /\ ghost.firstErr = NoErr) =>
        /\ call.status = 0 =>
              (outcome.kind = "Ok" /\ outcome.res.results = PerDimension(call)
               /\ outcome.res.neval = call.neval)
        /\ call.status = -1 =>
              outcome = Err(BadDim(AlgName[ad], input_size(ty.A)))
        /\ call.status = -2 =>
              outcome = Err(BadComp(AlgName[ad], call.ncomp))
        /\ call.status = 1 =>
              (outcome.kind = "Err" /\ outcome.err.v = "DidNotConverge"
               /\ outcome.err.res.results = PerDimension(call)
               /\ outcome.err.res.neval = call.neval)

\* C9 witness: Vegas reported badcomp after two callbacks that succeeded
C9_Witness ==
    /\ pc = "done" /\ ad = "Vegas" /\ call.returned
    /\ cb.n = 2 /\ ghost.firstErr = NoErr
    /\ call.status = -2
    /\ outcome = Err(BadComp("vegas", call.ncomp))
    /\ call.ncomp = 2

CubaKnown == {0, -1, -2, 1}
GslKnown == {GSL_SUCCESS, GSL_EMAXITER, GSL_EROUND, GSL_ESING, GSL_EDIVERGE, GSL_EDOM}
Unrecognized ==
    /\ pc = "done" /\ call.returned
    /\ (ad \in CubaAdapters => call.status \notin CubaKnown)
    /\ (ad \in GslAdapters => call.status \notin GslKnown)

\* C10 as claimed: for the Cuba and the GSL adapters alike, a status the
\* adapter does not recognize never yields Ok nor a typed error.
C10_UnrecognizedIsFatal ==
    Unrecognized => outcome.kind \notin {"Ok", "Err"}

\* C10 as amended: in the Cuba adapters a status outside {0, -1, -2, 1}
\* makes integrate panic (never Ok, never a typed error); in the GSL
\* adapters a code n outside the named ones never yields Ok: with no captured
\* failure it yields the typed error GSLError(Other(n)), else the captured
\* failure is re-raised.
C10_UnrecognizedStatus ==
    Unrecognized =>
        /\ ad \in CubaAdapters => outcome.kind = "panic"
        /\ ad \in GslAdapters =>
              IF ghost.firstErr = NoErr
              THEN outcome = Err(GSLError([c |-> "Other", n |-> call.status]))
              ELSE outcome = Panic(ghost.firstErr)

\* C10 witness: Cuhre got status 2 with no captured failure and panicked
\* in its last branch
C10_Witness ==
    /\ pc = "done" /\ ad = "Cuhre" /\ call.returned
    /\ call.status = 2 /\ ghost.firstErr = NoErr
    /\ cb.n >= 1
    /\ outcome = Panic(Payload("unreachable", 2, 0))

----------------------------------------------------------------------------
(* Claims about the results and errors of integrate, under Spec *)

\* the codes with which a GSL routine reports that it did not converge
GslNonConvergence == {GSL_EMAXITER, GSL_EROUND, GSL_ESING, GSL_EDIVERGE}

\* integrate returned to its caller after the backend reported
\* non-convergence
NonConvergence ==
    /\ pc = "done" /\ call.returned /\ outcome.kind \in {"Ok", "Err"}
    /\ \/ (ad \in CubaAdapters /\ call.status = 1)
       \/ (ad \in GslAdapters /\ call.status \in GslNonConvergence)

\* C11: whenever a backend (GSL or Cuba) reports non-convergence, the error
\* integrate returns carries the value and the error estimate the backend
\* computed, one pair per output dimension.
C11_PartialResultCarried ==
    NonConvergence =>
        /\ outcome.kind = "Err"
        /\ Len(outcome.err.res.results) = call.ncomp
        /\ \A j \in 1..call.ncomp :
              /\ outcome.err.res.results[j].value = call.value[j]
              /\ outcome.err.res.results[j].error = call.error[j]

\* the variant the claim names for each GSL constant
GslVariant(n) ==
    CASE n = GSL_EMAXITER -> [c |-> "MaxIter", n |-> 0]
      [] n = GSL_EROUND -> [c |-> "Round", n |-> 0]
      [] n = GSL_ESING -> [c |-> "Sing", n |-> 0]
      [] n = GSL_EDIVERGE -> [c |-> "Diverge", n |-> 0]
      [] n = GSL_EDOM -> [c |-> "Domain", n |-> 0]
      [] OTHER -> [c |-> "Other", n |-> n]

\* C12: in the GSL adapters, with no captured failure, GSL_SUCCESS gives
\* Ok{value, error}; any other code n gives Err(GSLError(k)) with k the
\* variant of n (MaxIter, Round, Sing, Diverge, Domain, else Other(n)); and
\* GSLErrorCode::from(n).raw() = n.
C12_GslStatusMapping ==
    (pc = "done" /\ ad \in GslAdapters /\ call.returned /\ ghost.firstErr = NoErr) =>
        /\ call.status = GSL_SUCCESS =>
              outcome = Ok(IntegrationResult(call.value[1], call.error[1]))
        /\ call.status # GSL_SUCCESS =>
              /\ outcome = Err(GSLError(GslVariant(call.status)))
              /\ GSLErrorCode_raw([c |-> outcome.err.name, n |-> outcome.err.n])
                    = call.status
        /\ GSLErrorCode_raw(GSLErrorCode_from(call.status)) = call.status

\* C12 witness: QAGS got GSL_EROUND after a callback and returned
\* Err(GSLError(Round)), whose raw code is GSL_EROUND again
C12_Witness ==
    /\ pc = "done" /\ ad = "QAGS" /\ call.returned /\ ghost.firstErr = NoErr
    /\ cb.n >= 1
    /\ call.status = GSL_EROUND
    /\ outcome = Err(GSLError([c |-> "Round", n |-> 0]))
    /\ GSLErrorCode_raw([c |-> outcome.err.name, n |-> outcome.err.n]) = GSL_EROUND

\* C13: a GSL adapter's integrate given an integrand of input arity n # 1
\* returns Err(InvalidInputDim(n)) and invokes neither the foreign routine
\* nor the integrand (so the input check comes before the output probe);
\* with input arity 1 and a probed output arity m # 1 it returns
\* Err(InvalidOutputDim(m)) without invoking the foreign routine.
C13_ArityErrors ==
    (pc = "done" /\ ad \in GslAdapters) =>
        /\ ty.A.n # 1 =>
              /\ outcome = Err(InvalidInputDim(ty.A.n))
              /\ ~call.invoked /\ lp.calls = 0 /\ call.probed = <<>>
        /\ (ty.A.n = 1 /\ call.probed # <<>> /\ call.probed[1] \notin {1, -1}) =>
              /\ outcome = Err(InvalidOutputDim(call.probed[1]))
              /\ ~call.invoked

----------------------------------------------------------------------------
(* Claims about the marshaling traits, under SpecTraits *)

\* C14: for every tuple type Real .. Real8 of arity N, input_size() is N and
\* output_size() of any of its values is N.
C14_SizeIsArity ==
    tr.op = "sizes" =>
        /\ tr.isize = ty.A.n
        /\ ty.B.k = "tuple" => tr.osize = ty.B.n

\* C15: for every tuple arity N in 1..8 and value x, into_args into a
\* buffer of length N followed by from_args succeeds and gives x back; and
\* from_args followed by into_args reproduces the buffer.
C15_RoundTrip ==
    /\ tr.op = "into_from" => (tr.panic = NoErr /\ tr.back = tr.val)
    /\ tr.op = "from_into" => (tr.panic = NoErr /\ tr.out = tr.args)

\* C16: from_args panics whenever the buffer's length differs from
\* input_size() of the target type, and a value it returns was built from a
\* buffer of exactly input_size() elements.
C16_FromArgsChecksLength ==
    tr.op = "from_args" =>
        /\ Len(tr.args) # input_size(ty.A) => (tr.panic # NoErr /\ tr.back = <<>>)
        /\ tr.panic = NoErr => Len(tr.args) = input_size(ty.A)

\* C16 witness: a 3-tuple asked from a buffer of 4 elements; the assert fails
C16_Witness ==
    /\ tr.op = "from_args" /\ ty.A.n = 3
    /\ Len(tr.args) = 4
    /\ tr.panic = Payload("assert_from_args", 0, 0)
    /\ tr.back = <<>>

\* C17: into_args on a buffer whose length differs from output_size() fails
\* with a failure carrying the expected length (the buffer's) and the
\* actual length (the value's), for Vec<Real> and for every tuple type.
C17_IntoArgsReportsLengths ==
    (tr.op = "into_args" /\ Len(tr.args) # output_size(ty.B, tr.val)) =>
        /\ tr.panic # NoErr
        /\ tr.panic.a = Len(tr.args)
        /\ tr.panic.b = output_size(ty.B, tr.val)

----------------------------------------------------------------------------
(* Claims about the workspace-owning adapters, under SpecPts and SpecWs *)

\* a < b on f64 (false when either side is NaN)
f64_lt(a, b) == ~a.nan /\ ~b.nan /\ a.v < b.v
StrictlyAscending(pts) == \A i \in 1..(Len(pts) - 1) : f64_lt(pts[i], pts[i + 1])

\* C18: QAGP::new and QAGP::with_points return None for every point list
\* with fewer than two points or not strictly ascending, and Some for every
\* list of two or more strictly ascending points; a rejection comes before
\* any workspace is allocated.
C18_PointListValidation ==
    log.op \in {"QAGP_new", "with_points"} =>
        /\ log.res = "None" <=> (Len(log.pts) < 2 \/ ~StrictlyAscending(log.pts))
        /\ log.res = "None" =>
              /\ \A i \in 1..Len(log.events) : log.events[i].e # "alloc"
              /\ log.op = "QAGP_new" => log.events = <<>>

\* C19: with_nintervals frees the old workspace before it allocates the new
\* one, so the adapter never has two workspaces allocated at once.
C19_ReleaseBeforeAcquire ==
    log.op = "with_nintervals" =>
        /\ \E i, j \in 1..Len(log.events) :
              i < j /\ log.events[i].e = "free" /\ log.events[j].e = "alloc"
        /\ ~\E i, j \in 1..Len(log.events) :
              i < j /\ log.events[i].e = "alloc" /\ log.events[j].e = "free"

\* C20: after any sequence of new, with_nintervals, setters, with_points,
\* clone, integrate and drop: no workspace was freed twice, every live
\* adapter owns a workspace that is still allocated, no two live adapters
\* share one, every allocated workspace is owned by a live adapter (none is
\* leaked), and every foreign call was made on an allocated workspace.
C20_WorkspaceFreedOnce ==
    /\ \A w \in 1..MaxWs :
          /\ heap[w].frees <= 1
          /\ heap[w].st = "freed" <=> heap[w].frees = 1
          /\ heap[w].st = "live" => \E o \in Owned : objs[o].wkspc.wkspc = w
    /\ \A o \in Owned : heap[objs[o].wkspc.wkspc].st = "live"
    /\ \A o1, o2 \in Owned :
          o1 # o2 => objs[o1].wkspc.wkspc # objs[o2].wkspc.wkspc
    /\ \A i \in 1..Len(log.events) :
          log.events[i].e \in {"use", "free"} => log.events[i].st = "live"

\* C20 witness: every workspace GSL handed out has been freed once and the
\* caller has just dropped its last adapter
C20_Witness ==
    /\ log.op = "drop" /\ Owned = {}
    /\ \A w \in 1..MaxWs : heap[w].st = "freed" /\ heap[w].frees = 1
    /\ \E w \in 1..MaxWs : heap[w].n = MaxIntervals

----------------------------------------------------------------------------
(* Claims about the Cuba adapters' integrate, under Spec *)

\* the foreign integration routine each Cuba adapter calls
CubaRoutine == [a \in CubaAdapters |->
                  IF a = "Vegas" THEN "llVegas"
                  ELSE IF a = "Suave" THEN "llSuave" ELSE "llCuhre"]

\* C21: in every Cuba adapter, integrate calls cubacores(0, 0) first, so
\* Cuba's forking is off before llVegas / llSuave / llCuhre is invoked and
\* stays off for as long as the foreign routine runs.
C21_ForkingDisabled ==
    (ad \in CubaAdapters /\ pc # "idle") =>
        /\ call.ffi # <<>> /\ call.ffi[1] = "cubacores"
        /\ call.cores = "off"
        /\ call.invoked => call.ffi = <<"cubacores", CubaRoutine[ad]>>
        /\ pc = "foreign" => call.invoked

\* a Cuba routine is running, has called the integrand back, forking is off
C21_Witness ==
    /\ ad \in CubaAdapters /\ pc = "foreign" /\ cb.n >= 1 /\ cb.tryres = "Ok"
    /\ call.ffi = <<"cubacores", CubaRoutine[ad]>>
    /\ call.cores = "off"

\* integrate returned results: as Ok, or inside Err(DidNotConverge)
HasResults ==
    pc = "done" /\ (outcome.kind = "Ok" \/
                    (outcome.kind = "Err" /\ outcome.err.v = "DidNotConverge"))
ReturnedResults == IF outcome.kind = "Ok" THEN outcome.res ELSE outcome.err.res

\* C22: the results a Cuba adapter returns, as Ok or inside DidNotConverge,
\* have nregions = None when they come from Vegas and nregions =
\* Some(the count the backend reported) when they come from Cuhre or Suave.
C22_RegionCount ==
    (ad \in CubaAdapters /\ HasResults) =>
        ReturnedResults.nregions =
            (IF ad = "Vegas" THEN None ELSE Some(call.nregions))

\* C23: for every Cuba adapter, the value / error / prob buffers handed to
\* the foreign routine are all zero and each has the length of the probed
\* output arity (ncomp); the results integrate returns, as Ok or inside
\* DidNotConverge, have one entry per output dimension of that count, entry j
\* built from value[j], error[j] and prob[j].
C23_BuffersAndResults ==
    ad \in CubaAdapters =>
        /\ call.invoked =>
              /\ call.probed = <<call.ncomp>>
              /\ Len(call.value) = call.ncomp
              /\ Len(call.error) = call.ncomp
              /\ Len(call.prob) = call.ncomp
        /\ pc = "foreign" =>
              /\ call.value = Zeros(call.ncomp)
              /\ call.error = Zeros(call.ncomp)
              /\ call.prob = Zeros(call.ncomp)
        /\ HasResults =>
              /\ Len(ReturnedResults.results) = call.ncomp
              /\ ReturnedResults.results = PerDimension(call)

\* a Cuba adapter returned DidNotConverge for an integrand whose probe
\* returned a two-element Vec: two entries, from the backend's buffers
C23_Witness ==
    /\ ad \in CubaAdapters /\ HasResults /\ outcome.kind = "Err"
    /\ ty.B = VecT /\ call.probed = <<2>>
    /\ Len(ReturnedResults.results) = 2
    /\ ReturnedResults.results[2].error = call.error[2]

----------------------------------------------------------------------------
(* Claims about the arity probe, under Spec *)

\* the last probe call of this integrate panicked
ProbeFailed == call.probed # <<>> /\ call.probed[Len(call.probed)] = -1

\* C24: in every adapter, when the integrand (or the conversion of its
\* argument) fails during the arity probe, integrate ends at once in that
\* panic: the payload is the probe's, nothing is stored in a LandingPad, the
\* integrand is not invoked again, and the foreign integration routine is
\* not invoked in that integrate call.  Hence a foreign routine that starts
\* with a LandingPad never finds a failure already stored in it.
C24_ProbeFailurePropagates ==
    /\ ProbeFailed =>
          /\ pc = "done" /\ outcome.kind = "panic"
          /\ outcome.payload.kind \in {"integrand", "index_out_of_bounds"}
          /\ outcome.payload.kind = "integrand" =>
                outcome.payload = IntegrandPanic(Len(call.probed))
          /\ lp.err = NoErr
          /\ lp.calls <= Len(call.probed)
          /\ ~call.invoked /\ ~call.returned /\ cb.n = 0
    /\ (pc = "foreign" /\ cb.n = 0 /\ call.userdata = "LandingPad") =>
          lp.err = NoErr

\* a GSL adapter's probe through raw_call panicked in the integrand
C24_Witness ==
    /\ ad = "QAGS" /\ ProbeFailed /\ call.probed = <<-1>>
    /\ outcome = Panic(IntegrandPanic(1))
    /\ ~call.invoked

\* C25: in every adapter, the integrand is invoked exactly once, by one
\* probe call, before the foreign routine starts or integrate rejects the
\* probed output arity.
C25_SingleProbe ==
    /\ call.probed # <<>> => Len(call.probed) = 1
    /\ (pc = "foreign" /\ cb.n = 0) => lp.calls = 1
    /\ (pc = "done" /\ outcome.kind = "Err" /\ outcome.err.v = "InvalidOutputDim") =>
          lp.calls = 1

----------------------------------------------------------------------------
(* Claims about the LandingPad's failure record, under SpecLP *)

\* C26: the failure record of a LandingPad is write-once.  It is empty after
\* new; while the LandingPad is not consumed, it goes from empty to
\* non-empty only in a try_call that returns Err with the payload it just
\* caught, and once non-empty it keeps that payload through every later
\* try_call and raw_call.
C26_WriteOnce ==
    /\ lp.err = NoErr
    /\ [][(lp.alive /\ lp'.alive) =>
             /\ lp.err # NoErr => lp'.err = lp.err
             /\ (lp.err = NoErr /\ lp'.err # NoErr) =>
                   /\ last'.op = "try_call" /\ last'.res = "Err"
                   /\ last'.caught = lp'.err]_vars

\* after a captured failure a raw_call ran the integrand once more, and the
\* record still holds the first payload
C26_Witness ==
    /\ lp.alive /\ last.op = "raw_call"
    /\ last.before.err = IntegrandPanic(1)
    /\ lp.calls > last.before.calls
    /\ lp.err = IntegrandPanic(1) /\ ghost.firstErr = lp.err

\* C27: a try_call that returns Err leaves the output buffer exactly as it
\* was before the call.
C27_ErrLeavesBuffer ==
    (last.op = "try_call" /\ last.res = "Err") => last.out = last.outBefore

----------------------------------------------------------------------------
(* Claims about the arity check in callbacks, under Spec *)

\* in the last callback a Vec-returning integrand returned a vector whose
\* length is not the output length fixed at probe time
MismatchedReturn ==
    ty.B = VecT /\ cb.n > 0 /\ cb.vlen # -1 /\ cb.vlen # call.ncomp

\* C28: when a Vec-returning integrand returns, in a callback after the
\* probe, a vector whose length differs from the output length fixed at
\* probe time, that callback's try_call returns Err with the arity mismatch
\* captured and the buffer unwritten, and once the foreign routine has
\* returned integrate re-raises that failure.
C28_ArityCheckedEveryCallback ==
    /\ MismatchedReturn =>
          /\ cb.tryres = "Err"
          /\ cb.out = Zeros(call.ncomp)
          /\ ghost.firstErr = Payload("vec_wrong_length", call.ncomp, cb.vlen)
          /\ pc = "foreign" => (lp.alive /\ lp.err = ghost.firstErr)
    /\ (pc = "done" /\ call.returned /\ ghost.firstErr.kind = "vec_wrong_length") =>
          outcome = Panic(ghost.firstErr)

----------------------------------------------------------------------------
(* Claims about the Cuba adapters' configuration, under Spec and SpecCfg *)

\* C29: every Cuhre value the constructor and the builder methods can
\* produce has either no key or a key in {7, 9, 11, 13}; the key integrate
\* chooses is in {7, 9, 11, 13} (13 for input arity 1 or 2, 11 for arity 3
\* and 9 otherwise when none was set), so the assertion before llCuhre
\* never fails.
C29_KeyIsValid ==
    ad = "Cuhre" =>
        /\ conf.key.some => conf.key.n \in {7, 9, 11, 13}
        /\ CuhreKey(conf, input_size(ty.A)) \in {7, 9, 11, 13}
        /\ ~conf.key.some =>
              CuhreKey(conf, input_size(ty.A)) =
                 (IF input_size(ty.A) \in {1, 2} THEN 13
                  ELSE IF input_size(ty.A) = 3 THEN 11 ELSE 9)
        /\ outcome.payload.kind # "assert_key"

\* the configuration field each builder method is named for
NamedField ==
    [with_mineval |-> "mineval", with_maxeval |-> "maxeval", with_seed |-> "seed",
     with_nstart |-> "nstart", with_nincrease |-> "nincrease",
     with_nbatch |-> "nbatch", with_nnew |-> "nnew", with_nmin |-> "nmin",
     with_flatness |-> "flatness", with_key |-> "key"]

\* C30: each builder method of Vegas, Suave and Cuhre returns the value it
\* was called on with the field it is named for set to its argument and
\* every other field unchanged; in particular with_mineval(n) sets mineval
\* to n and leaves maxeval as it was.
C30_SetterFrame ==
    (log.op \in DOMAIN NamedField /\ log.res # "None") =>
        conf = [log.before EXCEPT ![NamedField[log.op]] =
                   IF log.op = "with_key" THEN log.arg ELSE log.arg.n]

====
